---- MODULE Spec2Model ----
(***************************************************************************)
(* The Workspace data source of the Prefect Terraform provider             *)
(* (internal/provider/datasources/workspace.go) as a state machine.        *)
(*                                                                         *)
(* One adapter object (WorkspaceDataSource) holds a client reference set   *)
(* by Configure.  Read is a linear sequence of steps; each step of Read is *)
(* one action, and `pc` is the position of the Read in flight.  The spy    *)
(* variables wsCalls, getCalls and trace record the calls Read issues to   *)
(* the client facade, to the sub-client and the steps it executed.         *)
(*                                                                         *)
(* External collaborators (uuid.Parse, time.Format, the plugin framework's *)
(* Config.Get / State.Set, the facade implementation and the remote API)   *)
(* are modelled by what they return to the adapter: conversions by their   *)
(* input/output relation, fallible calls by a nondeterministic outcome.    *)
(***************************************************************************)
EXTENDS Naturals, Sequences, FiniteSets, TLC

VARIABLES
    client,          \* d.client: NoClient (nil interface) or a facade
    providerData,    \* req.ProviderData of the latest Configure call
    configureDiags,  \* resp.Diagnostics of the latest Configure call
    pc,              \* position of the Read in flight
    config,          \* req.Config of the Read in flight
    model,           \* the local `model` of Read
    diags,           \* resp.Diagnostics of the Read in flight
    accountID,       \* the local `accountID` of Read
    subClient,       \* the local `client` of Read (the WorkspacesClient)
    workspaceID,     \* the local `workspaceID` of Read
    workspace,       \* the local `workspace` of Read (the entity Get returned)
    state,           \* resp.State of the Read in flight
    wsCalls,         \* arguments of the d.client.Workspaces calls of this Read
    getCalls,        \* arguments of the client.Get calls of this Read
    trace            \* the steps this Read has executed, in order

vars == <<client, providerData, configureDiags, pc, config, model, diags,
          accountID, subClient, workspaceID, workspace, state, wsCalls,
          getCalls, trace>>

readVars == <<pc, config, model, diags, accountID, subClient, workspaceID,
              workspace, state, wsCalls, getCalls, trace>>

(***************************************************************************)
(* Bounds of the model.                                                    *)
(***************************************************************************)
\* UUIDs are 0..NumUUIDs; 0 is uuid.Nil.
NumUUIDs == 1
\* Remote timestamps have whole seconds 0..MaxSec.
MaxSec == 1

(***************************************************************************)
(* github.com/google/uuid                                                  *)
(***************************************************************************)
UUIDs == 0..NumUUIDs

\* uuid.Nil
Nil == 0

\* UUID.String(): the canonical lower-case hyphenated text.
UUIDString(u) == "uuid-" \o ToString(u)

\* Another text uuid.Parse accepts for the same UUID (upper-case hex digits;
\* the urn:uuid: and {braced} forms behave the same way).
UUIDUpper(u) == "UUID-" \o ToString(u)

UUIDTexts(u) == {UUIDString(u), UUIDUpper(u)}

\* uuid.Parse(s): (UUID, error).  An error comes with the zero UUID.
ParseUUIDEmptyIsNil(s) ==
    IF s = ""
    THEN [err |-> FALSE, uuid |-> Nil]
    ELSE IF \E u \in UUIDs : s \in UUIDTexts(u)
    THEN [err |-> FALSE, uuid |-> CHOOSE u \in UUIDs : s \in UUIDTexts(u)]
    ELSE [err |-> TRUE, uuid |-> Nil]

ParseUUID(s) ==
    IF \E u \in UUIDs : s \in UUIDTexts(u)
    THEN [err |-> FALSE, uuid |-> CHOOSE u \in UUIDs : s \in UUIDTexts(u)]
    ELSE [err |-> TRUE, uuid |-> Nil]

(***************************************************************************)
(* terraform-plugin-framework types.String                                 *)
(***************************************************************************)
StringNull == [null |-> TRUE, value |-> ""]

StringValue(s) == [null |-> FALSE, value |-> s]

IsNull(v) == v.null

\* ValueString() of a null value is "".
ValueString(v) == IF v.null THEN "" ELSE v.value

\* Go pointers to optional remote fields.
NilString == [nil |-> TRUE, v |-> ""]
PtrString(s) == [nil |-> FALSE, v |-> s]
ZeroTime == [sec |-> 0, nsec |-> 0]
NilTime == [nil |-> TRUE, v |-> ZeroTime]
PtrTime(t) == [nil |-> FALSE, v |-> t]

\* types.StringPointerValue(p): null for a nil pointer, else the value.
StringPointerValue(p) == IF p.nil THEN StringNull ELSE StringValue(p.v)

\* t.Format(time.RFC3339): whole seconds only, the sub-second part is dropped.
FormatRFC3339(t) == "2023-01-01T00:00:0" \o ToString(t.sec) \o "Z"

(***************************************************************************)
(* Diagnostics                                                             *)
(***************************************************************************)
\* Diagnostics.AddError(summary, detail): a generic error, no attribute path.
ErrorDiag(summary) == [severity |-> "error", path |-> "", summary |-> summary]

\* Diagnostics.AddAttributeError(path.Root(p), summary, detail).
AttributeErrorDiag(p, summary) ==
    [severity |-> "error", path |-> p, summary |-> summary]

\* Diagnostics.HasError()
HasError(ds) == \E i \in 1..Len(ds) : ds[i].severity = "error"

(***************************************************************************)
(* Data                                                                    *)
(***************************************************************************)
\* The nil interface value of d.client before any successful Configure.
NoClient == "nil"

\* Values of type api.PrefectClient handed to Configure.
Facades == {"facadeA", "facadeB"}

\* req.ProviderData: nil, a value of some other type, or a facade.
NilData == "nil"
WrongTypeData == "not-a-PrefectClient"
ProviderDatas == {NilData, WrongTypeData} \cup Facades

\* Texts a configuration may hold in id and account_id.
UUIDInputs ==
    {"", "not-a-uuid"} \cup UNION {UUIDTexts(u) : u \in UUIDs}

ConfigStrings(texts) == {StringNull} \cup {StringValue(t) : t \in texts}

\* WorkspaceDataSourceModel
ZeroModel ==
    [ID |-> StringNull, Created |-> StringNull, Updated |-> StringNull,
     AccountID |-> StringNull, Name |-> StringNull, Handle |-> StringNull,
     Description |-> StringNull]

\* req.Config: the attributes a configuration can set; the computed
\* attributes created, updated, handle and description are null in it.
\* Values are null or known: a data source is read once its configuration
\* is known.  name is enumerated as set or null because Read tests it.
Configs ==
    {[ZeroModel EXCEPT !.ID = i, !.AccountID = a, !.Name = n] :
        i \in ConfigStrings(UUIDInputs),
        a \in ConfigStrings(UUIDInputs),
        n \in ConfigStrings({"", "prod"})}

\* Remote timestamps: whole seconds and a sub-second part (nanoseconds).
Times == [sec : 0..MaxSec, nsec : {0, 500000000}]
TimePtrs == {NilTime} \cup {PtrTime(t) : t \in Times}

\* api.Workspace values the remote API may return from Get.
RemoteWorkspaces ==
    [ID : UUIDs, Name : {"prod"}, Handle : {"prod-handle"},
     Description : {NilString, PtrString(""), PtrString("desc")},
     Created : TimePtrs, Updated : TimePtrs]

ZeroWorkspace ==
    [ID |-> Nil, Name |-> "", Handle |-> "", Description |-> NilString,
     Created |-> NilTime, Updated |-> NilTime]

NoSubClient == [bound |-> FALSE, account |-> Nil]

\* resp.State of a data source Read starts out null.
NullState == [written |-> FALSE, value |-> ZeroModel]

(***************************************************************************)
(* Configure (workspace.go 49-65)                                          *)
(***************************************************************************)
\* The checked downcast req.ProviderData.(api.PrefectClient).
IsPrefectClient(data) == data \in Facades

ConfigureAssigningUnchecked(data) ==
    /\ pc = "idle"
    /\ providerData' = data
    /\ IF data = NilData
       THEN /\ configureDiags' = <<>>
            /\ client' = client
       ELSE /\ configureDiags' = IF IsPrefectClient(data) THEN <<>>
                ELSE <<ErrorDiag("Unexpected Data Source Configure Type")>>
            /\ client' = data
    /\ UNCHANGED readVars

Configure(data) ==
    /\ pc = "idle"
    /\ providerData' = data
    /\ IF data = NilData
       THEN /\ configureDiags' = <<>>
            /\ client' = client
       ELSE IF ~IsPrefectClient(data)
       THEN /\ configureDiags' =
                <<ErrorDiag("Unexpected Data Source Configure Type")>>
            /\ client' = client
       ELSE /\ configureDiags' = <<>>
            /\ client' = data
    /\ UNCHANGED readVars

(***************************************************************************)
(* Read (workspace.go 107-193)                                             *)
(***************************************************************************)
configureVars == <<client, providerData, configureDiags>>

\* The step finishes Read with one more diagnostic (AddError...; return).
Return(step, d) ==
    /\ diags' = Append(diags, d)
    /\ trace' = Append(trace, step)
    /\ pc' = "done"

\* The step succeeded; Read goes on to `next`.
Proceed(step, next) ==
    /\ trace' = Append(trace, step)
    /\ pc' = next
    /\ diags' = diags

\* 108-114: a new Read; req.Config.Get populates the model or reports errors,
\* and on errors leaves the zero-valued model untouched.
ReadBegin(cfg, decoded) ==
    /\ pc = "idle"
    /\ config' = cfg
    /\ accountID' = Nil
    /\ subClient' = NoSubClient
    /\ workspaceID' = Nil
    /\ workspace' = ZeroWorkspace
    /\ state' = NullState
    /\ wsCalls' = <<>>
    /\ getCalls' = <<>>
    /\ IF decoded
       THEN /\ model' = cfg
            /\ diags' = <<>>
            /\ trace' = <<"decode">>
            /\ pc' = "validate"
       ELSE /\ model' = ZeroModel
            /\ diags' = <<ErrorDiag("Value Conversion Error")>>
            /\ trace' = <<"decode">>
            /\ pc' = "done"
    /\ UNCHANGED configureVars

\* 116: !model.ID.IsNull() && !model.Name.IsNull()
ConflictingLookupKeysByValue(m) == ValueString(m.ID) # "" /\ ~IsNull(m.Name)

ConflictingLookupKeys(m) == ~IsNull(m.ID) /\ ~IsNull(m.Name)

\* 116-123
ValidateLookupKeys ==
    /\ pc = "validate"
    /\ IF ConflictingLookupKeys(model)
       THEN Return("validate", ErrorDiag("Conflicting workspace lookup keys"))
       ELSE Proceed("validate", "account")
    /\ UNCHANGED <<configureVars, config, model, accountID, subClient,
                   workspaceID, workspace, state, wsCalls, getCalls>>

\* 126: !model.AccountID.IsNull() && model.AccountID.ValueString() != ""
AccountIDGivenIfNonNull(m) == ~IsNull(m.AccountID)

AccountIDGiven(m) == ~IsNull(m.AccountID) /\ ValueString(m.AccountID) # ""

\* 130-134
AccountIDParseDiag ==
    AttributeErrorDiag("account_id", "Error parsing Account ID")

\* 125-138
ResolveAccount ==
    /\ pc = "account"
    /\ IF AccountIDGiven(model)
       THEN LET r == ParseUUID(ValueString(model.AccountID)) IN
            /\ accountID' = r.uuid
            /\ IF r.err
               THEN Return("account", AccountIDParseDiag)
               ELSE Proceed("account", "subclient")
       ELSE /\ accountID' = Nil
            /\ Proceed("account", "subclient")
    /\ UNCHANGED <<configureVars, config, model, subClient, workspaceID,
                   workspace, state, wsCalls, getCalls>>

\* 140: the argument Read passes to d.client.Workspaces.
WorkspacesArgument == accountID

\* 140-148: a method call on the nil interface panics; a facade returns a
\* sub-client bound to the account, or a construction error.
ConstructSubClient(ok) ==
    /\ pc = "subclient"
    /\ IF client = NoClient
       THEN /\ pc' = "panic"
            /\ trace' = Append(trace, "subclient")
            /\ UNCHANGED <<diags, subClient, wsCalls>>
       ELSE /\ wsCalls' = Append(wsCalls, WorkspacesArgument)
            /\ IF ok
               THEN /\ subClient' =
                        [bound |-> TRUE, account |-> WorkspacesArgument]
                    /\ Proceed("subclient", "parseid")
               ELSE /\ subClient' = subClient
                    /\ Return("subclient",
                              ErrorDiag("Error creating workspace client"))
    /\ UNCHANGED <<configureVars, config, model, accountID, workspaceID,
                   workspace, state, getCalls>>

\* 152-156
WorkspaceIDParseDiagGeneric == ErrorDiag("Error parsing Workspace ID")

WorkspaceIDParseDiag == AttributeErrorDiag("id", "Error parsing Workspace ID")

\* 150-159
ParseWorkspaceIDNoReturn ==
    /\ pc = "parseid"
    /\ LET r == ParseUUID(ValueString(model.ID)) IN
       /\ workspaceID' = r.uuid
       /\ diags' = IF r.err THEN Append(diags, WorkspaceIDParseDiag) ELSE diags
       /\ trace' = Append(trace, "parseid")
       /\ pc' = "get"
    /\ UNCHANGED <<configureVars, config, model, accountID, subClient,
                   workspace, state, wsCalls, getCalls>>

ParseWorkspaceID ==
    /\ pc = "parseid"
    /\ LET r == ParseUUID(ValueString(model.ID)) IN
       /\ workspaceID' = r.uuid
       /\ IF r.err
          THEN Return("parseid", WorkspaceIDParseDiag)
          ELSE Proceed("parseid", "get")
    /\ UNCHANGED <<configureVars, config, model, accountID, subClient,
                   workspace, state, wsCalls, getCalls>>

\* 161-169: the remote call returns an entity or an error (not found, auth,
\* network, server, cancellation).
CallGetPartialOnError(failed, ws) ==
    /\ pc = "get"
    /\ getCalls' = Append(getCalls, [account |-> subClient.account,
                                     id |-> workspaceID])
    /\ IF failed
       THEN /\ workspace' = workspace
            /\ model' = [model EXCEPT !.Name = StringValue(ws.Name)]
            /\ Return("get", ErrorDiag("Error refreshing workspace state"))
       ELSE /\ workspace' = ws
            /\ model' = model
            /\ Proceed("get", "map")
    /\ UNCHANGED <<configureVars, config, accountID, subClient,
                   workspaceID, state, wsCalls>>

CallGet(failed, ws) ==
    /\ pc = "get"
    /\ getCalls' = Append(getCalls, [account |-> subClient.account,
                                     id |-> workspaceID])
    /\ IF failed
       THEN /\ workspace' = workspace
            /\ Return("get", ErrorDiag("Error refreshing workspace state"))
       ELSE /\ workspace' = ws
            /\ Proceed("get", "map")
    /\ UNCHANGED <<configureVars, config, model, accountID, subClient,
                   workspaceID, state, wsCalls>>

\* 173-177, 179-183: a nil timestamp is null, else its RFC 3339 text.
TimeAttribute(p) ==
    IF p.nil THEN StringNull ELSE StringValue(FormatRFC3339(p.v))

\* 171-187
MapWorkspaceEmptyForNil(m, ws) ==
    [m EXCEPT !.ID = StringValue(UUIDString(ws.ID)),
              !.Created = TimeAttribute(ws.Created),
              !.Updated = TimeAttribute(ws.Updated),
              !.Name = StringValue(ws.Name),
              !.Handle = StringValue(ws.Handle),
              !.Description = StringValue(ws.Description.v)]

MapWorkspace(m, ws) ==
    [m EXCEPT !.ID = StringValue(UUIDString(ws.ID)),
              !.Created = TimeAttribute(ws.Created),
              !.Updated = TimeAttribute(ws.Updated),
              !.Name = StringValue(ws.Name),
              !.Handle = StringValue(ws.Handle),
              !.Description = StringPointerValue(ws.Description)]

\* 171-187
MapResult ==
    /\ pc = "map"
    /\ model' = MapWorkspace(model, workspace)
    /\ Proceed("map", "persist")
    /\ UNCHANGED <<configureVars, config, accountID, subClient, workspaceID,
                   workspace, state, wsCalls, getCalls>>

\* 189-192: resp.State.Set writes the model, or reports errors and leaves
\* the state as it was.
PersistState(written) ==
    /\ pc = "persist"
    /\ IF written
       THEN /\ state' = [written |-> TRUE, value |-> model]
            /\ diags' = diags
       ELSE /\ state' = state
            /\ diags' = Append(diags, ErrorDiag("Value Conversion Error"))
    /\ trace' = Append(trace, "persist")
    /\ pc' = "done"
    /\ UNCHANGED <<configureVars, config, model, accountID, subClient,
                   workspaceID, workspace, wsCalls, getCalls>>

\* 193 and every `return`: the handler hands resp to the runtime; the
\* request-scoped locals and the response are gone, the adapter is idle.
ReadReturn ==
    /\ pc = "done"
    /\ pc' = "idle"
    /\ config' = ZeroModel
    /\ model' = ZeroModel
    /\ diags' = <<>>
    /\ accountID' = Nil
    /\ subClient' = NoSubClient
    /\ workspaceID' = Nil
    /\ workspace' = ZeroWorkspace
    /\ state' = NullState
    /\ wsCalls' = <<>>
    /\ getCalls' = <<>>
    /\ trace' = <<>>
    /\ UNCHANGED configureVars

(***************************************************************************)
(* Specification                                                           *)
(***************************************************************************)
\* NewWorkspaceDataSource (workspace.go 39-41): no client, no Read in flight.
Init ==
    /\ client = NoClient
    /\ providerData = NilData
    /\ configureDiags = <<>>
    /\ pc = "idle"
    /\ config = ZeroModel
    /\ model = ZeroModel
    /\ diags = <<>>
    /\ accountID = Nil
    /\ subClient = NoSubClient
    /\ workspaceID = Nil
    /\ workspace = ZeroWorkspace
    /\ state = NullState
    /\ wsCalls = <<>>
    /\ getCalls = <<>>
    /\ trace = <<>>

Next ==
    \/ \E data \in ProviderDatas : Configure(data)
    \/ \E cfg \in Configs, decoded \in BOOLEAN : ReadBegin(cfg, decoded)
    \/ ValidateLookupKeys
    \/ ResolveAccount
    \/ \E ok \in BOOLEAN : ConstructSubClient(ok)
    \/ ParseWorkspaceID
    \/ \E failed \in BOOLEAN, ws \in RemoteWorkspaces : CallGet(failed, ws)
    \/ MapResult
    \/ \E written \in BOOLEAN : PersistState(written)
    \/ ReadReturn

Spec == Init /\ [][Next]_vars

(***************************************************************************)
(* Vocabulary of the properties                                            *)
(***************************************************************************)
\* The linear sequence of Read's steps.
StepOrder ==
    <<"decode", "validate", "account", "subclient", "parseid", "get", "map",
      "persist">>

\* The Read in flight has executed `step`.
Ran(step) == \E i \in 1..Len(trace) : trace[i] = step

\* The Read in flight is over: it returned, or the process panicked.
Finished == pc \in {"done", "panic"}

ErrorCount(ds) == Cardinality({i \in 1..Len(ds) : ds[i].severity = "error"})

\* account_id is non-null, non-empty and unparsable.
MalformedAccountID(m) ==
    /\ ~IsNull(m.AccountID)
    /\ ValueString(m.AccountID) # ""
    /\ ParseUUID(ValueString(m.AccountID)).err

\* id is set and unparsable.
MalformedID(m) == ~IsNull(m.ID) /\ ParseUUID(ValueString(m.ID)).err

ConflictDiag == ErrorDiag("Conflicting workspace lookup keys")

GetFailedDiag == ErrorDiag("Error refreshing workspace state")

SubClientFailedDiag == ErrorDiag("Error creating workspace client")

(***************************************************************************)
(* C1                                                                      *)
(***************************************************************************)
\* C1: in every Read whose model has both id and name set (non-null, id = ""
\* included), Read records the "Conflicting workspace lookup keys" error and
\* returns at once: no Workspaces(...) call, no Get(...) call, and the state
\* is not written.  (After the mapping step id and name hold remote values;
\* the attributes meant are those populated from the configuration.)
C1_ConflictingKeysShortCircuit ==
    (pc # "idle" /\ ~Ran("map") /\ ~IsNull(model.ID) /\ ~IsNull(model.Name)) =>
        /\ wsCalls = <<>>
        /\ getCalls = <<>>
        /\ state = NullState
        /\ pc \in {"validate", "done"}
        /\ pc = "done" => diags = <<ConflictDiag>>

\* A Read with id = "" and name = "prod" on a configured adapter has returned
\* with the conflict diagnostic.
C1_Witness ==
    /\ pc = "done"
    /\ client \in Facades
    /\ model.ID = StringValue("")
    /\ model.Name = StringValue("prod")
    /\ diags = <<ConflictDiag>>
    /\ wsCalls = <<>>

(***************************************************************************)
(* C4                                                                      *)
(***************************************************************************)
\* C4: when the Get call of a Read returns an error, Read ends with exactly
\* one error diagnostic, the model still holds the values populated from the
\* configuration (no field overwritten with remote values), and the state is
\* unmodified.
C4_GetErrorLeavesModelAndState ==
    (pc = "done" /\ Ran("get") /\ ~Ran("map")) =>
        /\ ErrorCount(diags) = 1
        /\ diags = <<GetFailedDiag>>
        /\ model = config
        /\ workspace = ZeroWorkspace
        /\ state = NullState
        /\ Len(getCalls) = 1

\* A Read whose Get call failed has returned.
C4_Witness ==
    /\ pc = "done"
    /\ trace = SubSeq(StepOrder, 1, 6)
    /\ diags = <<GetFailedDiag>>
    /\ ~IsNull(model.ID)

(***************************************************************************)
(* C5                                                                      *)
(***************************************************************************)
\* The model attribute of a nullable remote timestamp: null when absent,
\* never the empty string; the RFC 3339 text when present.
TimeRoundTrip(attr, p) ==
    IF p.nil
    THEN IsNull(attr) /\ attr # StringValue("")
    ELSE ~IsNull(attr) /\ ValueString(attr) = FormatRFC3339(p.v)

C2_MalformedUUIDAlwaysReported ==
    (pc = "done" /\ Ran("validate") /\ ~ConflictingLookupKeys(config)) =>
        /\ MalformedAccountID(config) =>
            /\ \E i \in 1..Len(diags) : diags[i].path = "account_id"
            /\ getCalls = <<>> /\ ~state.written
        /\ MalformedID(config) =>
            /\ \E i \in 1..Len(diags) : diags[i].path = "id"
            /\ getCalls = <<>> /\ ~state.written

\* C2 (amended): a malformed account_id is reported once Read has run the
\* account-scope step, an unparsable id once Read has run the id-parsing
\* step; the report is then the only diagnostic, attribute-scoped on exactly
\* account_id or id, and Read has returned.  A diagnostic about a UUID parse
\* is never generic.  With a malformed account_id or id in the configuration
\* there is never a Get call nor a written state.
C2_MalformedUUIDReportedWhenReached ==
    /\ (Ran("account") /\ MalformedAccountID(config)) =>
        pc = "done" /\ diags = <<AccountIDParseDiag>>
    /\ (Ran("parseid") /\ ParseUUID(ValueString(config.ID)).err) =>
        pc = "done" /\ diags = <<WorkspaceIDParseDiag>>
    /\ \A i \in 1..Len(diags) :
        /\ diags[i].summary = "Error parsing Account ID" <=>
            diags[i].path = "account_id"
        /\ diags[i].summary = "Error parsing Workspace ID" <=>
            diags[i].path = "id"
        /\ diags[i].path \in {"", "account_id", "id"}
    /\ (MalformedAccountID(config) \/ MalformedID(config)) =>
        getCalls = <<>> /\ ~state.written /\ ~Ran("get")

\* A Read with a valid account_id and an unparsable id got its sub-client
\* and returned with the diagnostic on the id path.
C2_Witness ==
    /\ pc = "done"
    /\ config.ID = StringValue("not-a-uuid")
    /\ config.AccountID = StringValue(UUIDString(1))
    /\ subClient.bound
    /\ diags = <<WorkspaceIDParseDiag>>

(***************************************************************************)
(* C3                                                                      *)
(***************************************************************************)
\* The account scope Read is to request for a configuration.
ExpectedScope(m) ==
    IF IsNull(m.AccountID) \/ ValueString(m.AccountID) = ""
    THEN Nil
    ELSE ParseUUID(ValueString(m.AccountID)).uuid

\* C3 as stated: every Read that returned with a null or empty account_id
\* recorded no account_id diagnostic and requested the Workspaces sub-client
\* with the nil UUID; every one with a valid non-empty account_id requested
\* it with the parsed UUID.
C3_ScopeAlwaysRequested ==
    (pc = "done" /\ Ran("validate") /\ ~MalformedAccountID(config)) =>
        /\ \A i \in 1..Len(diags) : diags[i].path # "account_id"
        /\ wsCalls = <<ExpectedScope(config)>>

\* C3 (amended): a Read with a null or empty account_id records no
\* account_id diagnostic; Read requests the sub-client at most once, exactly
\* when it reaches the construction step with a set client reference (the
\* configuration decoded, the lookup keys do not conflict, account_id is not
\* malformed), and then with the nil UUID if account_id is null or empty and
\* with exactly the parsed UUID if account_id is valid and non-empty.
C3_ScopeResolution ==
    /\ ~MalformedAccountID(config) =>
        /\ \A i \in 1..Len(diags) : diags[i].path # "account_id"
        /\ IF Ran("subclient") /\ pc # "panic"
           THEN wsCalls = <<ExpectedScope(config)>>
           ELSE wsCalls = <<>>
        /\ subClient.bound => subClient.account = ExpectedScope(config)
    /\ MalformedAccountID(config) => wsCalls = <<>>
    /\ Ran("subclient") =>
        Ran("validate") /\ ~ConflictingLookupKeys(config)
            /\ ~MalformedAccountID(config)

\* A Read with account_id = "" requested the sub-client for the nil UUID.
C3_Witness ==
    /\ config.AccountID = StringValue("")
    /\ wsCalls = <<Nil>>
    /\ subClient.bound
    /\ diags = <<>>

(***************************************************************************)
(* C6                                                                      *)
(***************************************************************************)
\* The steps that can have recorded a diagnostic.
DiagSteps(d) ==
    IF d.summary = "Value Conversion Error" THEN {"decode", "persist"}
    ELSE IF d.summary = "Conflicting workspace lookup keys" THEN {"validate"}
    ELSE IF d.summary = "Error parsing Account ID" THEN {"account"}
    ELSE IF d.summary = "Error creating workspace client" THEN {"subclient"}
    ELSE IF d.summary = "Error parsing Workspace ID" THEN {"parseid"}
    ELSE IF d.summary = "Error refreshing workspace state" THEN {"get"}
    ELSE {}

C6_StateInvariant ==
    /\ HasError(diags) =>
        /\ pc = "done"
        /\ Len(diags) = 1
        /\ trace[Len(trace)] \in DiagSteps(diags[1])
        /\ ~state.written
    /\ state.written =>
        /\ ~HasError(diags)
        /\ trace = StepOrder
    /\ (pc = "done" /\ ~HasError(diags)) => state.written

\* C6: once an error diagnostic is recorded Read has returned: the step that
\* recorded it is the last step executed, it is the only step that
\* contributed diagnostics, nothing but the return follows it, and the state
\* is written only in a Read that recorded no error.
C6_ErrorReturnsImmediately ==
    /\ []C6_StateInvariant
    /\ [][HasError(diags) => (pc' = "idle" /\ diags' = <<>>)]_vars

\* A Read that failed to construct its sub-client has returned without
\* parsing the id, calling Get or writing the state.
C6_Witness ==
    /\ pc = "done"
    /\ diags = <<SubClientFailedDiag>>
    /\ trace = SubSeq(StepOrder, 1, 4)
    /\ getCalls = <<>>
    /\ ~state.written

(***************************************************************************)
(* C7                                                                      *)
(***************************************************************************)
C7_StateInvariant ==
    /\ client \in {NoClient} \cup Facades
    /\ providerData = NilData => configureDiags = <<>>
    /\ providerData = WrongTypeData =>
        configureDiags =
            <<ErrorDiag("Unexpected Data Source Configure Type")>>
    /\ providerData \in Facades =>
        client = providerData /\ configureDiags = <<>>

\* C7: Configure with provider data that is non-nil and not a PrefectClient
\* records one "Unexpected Data Source Configure Type" error, does not abort
\* the process and leaves the client reference unchanged; the reference
\* changes only in a Configure with a facade, to that facade, with no
\* diagnostic.
C7_ConfigureFailsClosed ==
    /\ []C7_StateInvariant
    /\ [][client' # client =>
            /\ providerData' \in Facades
            /\ client' = providerData'
            /\ configureDiags' = <<>>]_vars
    /\ [][(providerData' # providerData \/ configureDiags' # configureDiags)
            => (pc' = pc /\ pc' = "idle")]_vars

\* A configured adapter was handed provider data of the wrong type and kept
\* its client.
C7_Witness ==
    /\ providerData = WrongTypeData
    /\ client = "facadeA"
    /\ Len(configureDiags) = 1

(***************************************************************************)
(* C8                                                                      *)
(***************************************************************************)
\* id parses, name is null, account_id is null, empty or parses.
WellFormedInputs(m) ==
    /\ ~ConflictingLookupKeys(m)
    /\ ~IsNull(m.ID)
    /\ ~ParseUUID(ValueString(m.ID)).err
    /\ ~MalformedAccountID(m)

\* C8: after any sequence of Configure calls, a Read with well-formed,
\* non-conflicting inputs never dereferences an unset client reference (no
\* panic), and ends with error diagnostics or a written state.
C8_ReadNeverPanics ==
    (pc # "idle" /\ WellFormedInputs(config)) =>
        /\ pc # "panic"
        /\ pc = "done" => (HasError(diags) \/ state.written)

(***************************************************************************)
(* C9                                                                      *)
(***************************************************************************)
\* The steps run in order, each at most once, Get is called at most once, a
\* sub-client construction failure is one generic diagnostic with no Get.
C9_LinearSteps ==
    /\ Len(trace) <= Len(StepOrder)
    /\ trace = SubSeq(StepOrder, 1, Len(trace))
    /\ Len(getCalls) <= 1
    /\ Len(wsCalls) <= 1
    /\ Len(getCalls) = (IF Ran("get") THEN 1 ELSE 0)
    /\ (Finished /\ Ran("subclient") /\ ~Ran("parseid") /\ pc # "panic") =>
        /\ diags = <<SubClientFailedDiag>>
        /\ diags[1].path = ""
        /\ getCalls = <<>>

\* C9: every Read is one linear pass through its steps, and every Read
\* terminates either with the state written or with an error diagnostic.
C9_LinearPassTerminates ==
    /\ C9_LinearSteps
    /\ Finished => (state.written \/ HasError(diags))

(***************************************************************************)
(* C10                                                                     *)
(***************************************************************************)
\* C10 as stated: every Read with a null id that returned made no Get call,
\* wrote no state and ended with an error diagnostic on the id path.
C10_NullIDEndsWithIDDiagnostic ==
    (pc = "done" /\ Ran("validate") /\ IsNull(config.ID)) =>
        /\ getCalls = <<>>
        /\ ~state.written
        /\ \E i \in 1..Len(diags) : diags[i].path = "id"

\* C10 (amended): in a Read with a null id, whatever name holds, Get is
\* never invoked and no state is written; if Read reaches the id-parsing
\* step it returns with one attribute-scoped error diagnostic on the id
\* path, and otherwise it has ended at an earlier step; Get is only ever
\* invoked with the UUID parsed from a non-null id while name is null.
C10_NeverLookedUpByNameAlone ==
    /\ IsNull(config.ID) =>
        /\ getCalls = <<>>
        /\ ~Ran("get")
        /\ ~state.written
        /\ Ran("parseid") => pc = "done" /\ diags = <<WorkspaceIDParseDiag>>
    /\ \A i \in 1..Len(getCalls) :
        /\ ~IsNull(config.ID)
        /\ IsNull(config.Name)
        /\ ~ParseUUID(ValueString(config.ID)).err
        /\ getCalls[i].id = ParseUUID(ValueString(config.ID)).uuid

\* A Read with a null id and a name got its sub-client and returned with the
\* diagnostic on the id path.
C10_Witness ==
    /\ pc = "done"
    /\ IsNull(config.ID)
    /\ config.Name = StringValue("prod")
    /\ Len(wsCalls) = 1
    /\ diags = <<WorkspaceIDParseDiag>>
    /\ getCalls = <<>>

====
